---- MODULE Spec2Model ----
(***************************************************************************)
(* Matchmaking state machine of the tic-tac-toe queue: the DynamoDB table  *)
(* of connections and the four Lambda handlers that change it              *)
(* (connection.py, joinQueue.py, disconnect.py, gameOver.py).              *)
(*                                                                         *)
(* The handlers call a layer module `utility` (count_active_players,       *)
(* get_marker_for_new_active_user, update_user) whose source is not part   *)
(* of the tree; those three operators follow sections 4.1, 5 and 6 of the  *)
(* specification.  Everything else is translated from the handlers.        *)
(***************************************************************************)
EXTENDS Integers, Sequences, FiniteSets, TLC

\* ---------------------------------------------------------------- bounds
NumIds == 3
MaxClock == 4
MaxRunning == 2

Ids == 1..NumIds

\* body.get('loserId') of a gameOver event without a loser (a tie)
NoLoser == 0
LoserInputs == Ids \cup {NoLoser}

\* ---------------------------------------------------------------- values
\* marker attribute: "X" / "O", the "" gameOver writes, the None joinQueue
\* passes, or no attribute at all (the item connection.py puts)
NoMarkerAttr == "absent"
NoneMarker == "None"
EmptyMarker == ""
SlotsFull == "SlotsFull"
Markers == {"X", "O"}

\* update_user called without a timestamp argument
NoTimestamp == -1

\* the handler ended with an exception it does not catch (no response body)
Unhandled == 0

VARIABLES
    table,     \* DynamoDB table: connectionId -> item, for the ids that have an item
    clock,     \* the last value datetime.utcnow() returned
    last,      \* the handler that completed last (Done)
    running    \* concurrent runs: per id, the handler in progress for it (Local)

vars == <<table, clock, last, running>>

\* status of an id in a table, "absent" when it has no item
StatusOf(t, c) == IF c \in DOMAIN t THEN t[c].status ELSE "absent"

\* what a handler leaves behind: its name, the id it was called for, the status
\* that id had before the step that completes the handler (for a handler run as
\* one step: when it started), the statusCode it returned (Unhandled when it
\* ended with an exception it does not catch), the Lambda invocations it sent
\* and the ids whose promotion met a store error (none unless stated)
Done(op, c, statusCode, invokes) ==
    [op |-> op, id |-> c, was |-> StatusOf(table, c),
     statusCode |-> statusCode, invokes |-> invokes, failed |-> {}]

\* ---------------------------------------------------------------- utility layer
ActiveIds(t) == {c \in DOMAIN t : t[c].status = "active"}
InactiveIds(t) == {c \in DOMAIN t : t[c].status = "inactive"}

count_active_players(t) == Cardinality(ActiveIds(t))

\* the marker the single active player does not hold
OtherMarker(existing_marker) == IF existing_marker = "X" THEN "O" ELSE "X"

\* assignMarker: X with no active player, the free marker with one, SlotsFull with two
get_marker_for_new_active_user(t) ==
    IF count_active_players(t) = 0 THEN "X"
    ELSE IF count_active_players(t) = 1
         THEN OtherMarker(t[CHOOSE c \in ActiveIds(t) : TRUE].marker)
         ELSE SlotsFull

\* update(id, fields): NotFound (a ClientError) when the id has no item
update_user_fails(t, connection_id) == connection_id \notin DOMAIN t

\* a promotion is a compare-and-swap on status: the write to active is refused
\* (ConditionFailed, a ClientError) unless the item is still inactive
update_user_error(t, connection_id, status) ==
    \/ update_user_fails(t, connection_id)
    \/ (status = "active" /\ t[connection_id].status # "inactive")

update_user(t, connection_id, status, marker, timestamp) ==
    IF update_user_error(t, connection_id, status) THEN t
    ELSE [t EXCEPT ![connection_id] =
            [@ EXCEPT !.status = status,
                      !.marker = marker,
                      !.joinedAt = IF timestamp = NoTimestamp THEN @ ELSE timestamp]]

\* ---------------------------------------------------------------- statusIndex
\* the items of one status in the statusIndex GSI, in ascending joinedAt order
RECURSIVE SortedByJoinedAt(_, _)
SortedByJoinedAt(t, S) ==
    IF S = {} THEN <<>>
    ELSE LET first == CHOOSE c \in S : \A d \in S :
                          \/ t[c].joinedAt < t[d].joinedAt
                          \/ (t[c].joinedAt = t[d].joinedAt /\ c <= d)
         IN <<first>> \o SortedByJoinedAt(t, S \ {first})

Take(s, n) == SubSeq(s, 1, IF n < Len(s) THEN n ELSE Len(s))

query_inactive(t, limit) == Take(SortedByJoinedAt(t, InactiveIds(t)), limit)

\* ---------------------------------------------------------------- connection.py
\* active_players[0] is the first item of the statusIndex query
get_marker_for_new_active_userr(t) ==
    IF count_active_players(t) = 0 THEN "X"
    ELSE LET active_players == SortedByJoinedAt(t, ActiveIds(t))
         IN OtherMarker(t[active_players[1]].marker)

NewItem(session_id, timestamp) ==
    [sessionId |-> session_id, status |-> "inactive",
     marker |-> NoMarkerAttr, joinedAt |-> timestamp]

\* faulty variant: the put carries no ConditionExpression
put_item_unconditional(t, connection_id) == FALSE

\* put_item with ConditionExpression attribute_not_exists(connectionId)
put_item_fails(t, connection_id) == connection_id \in DOMAIN t

put_item(t, connection_id, item) ==
    [c \in DOMAIN t \cup {connection_id} |-> IF c = connection_id THEN item ELSE t[c]]

\* uuid.uuid4(): a value no earlier call returned (the n-th handler's is n)
uuid4(n) == n

\* the payload line 48 sends to joinQueue as an asynchronous ('Event') invocation;
\* its delivery is a JoinQueue event
joinQueue_payload(t, connection_id, session_id) ==
    [connectionId |-> connection_id, sessionId |-> session_id,
     marker |-> get_marker_for_new_active_userr(t)]

Connect(c) ==
    /\ clock < MaxClock
    /\ clock' = clock + 1
    /\ LET timestamp == clock'
           session_id == uuid4(clock')
       IN IF put_item_fails(table, c)
          THEN /\ table' = table
               /\ last' = Done("connect", c, 500, {})
          ELSE /\ table' = put_item(table, c, NewItem(session_id, timestamp))
               /\ last' = Done("connect", c, 200,
                               {joinQueue_payload(table', c, session_id)})

\* ---------------------------------------------------------------- joinQueue.py
\* faulty variant: a third seat
has_free_seat_of_three(active_count) == active_count <= 2

has_free_seat(active_count) == active_count < 2

\* faulty variant: the ClientError of update_user is swallowed
joinQueue_statusCode_swallowed(failed) == 200

\* the try of the handler returns 200, its except ClientError returns 500
joinQueue_statusCode(failed) == IF failed THEN 500 ELSE 200

\* faulty variant: no count of the active players; the caller is seated with the marker
\* connection.py computed for it
JoinQueue_unchecked(c) ==
    /\ clock' = clock
    /\ table' = update_user(table, c, "active",
                            get_marker_for_new_active_userr(table), NoTimestamp)
    /\ last' = Done("joinQueue", c,
                    joinQueue_statusCode(update_user_error(table, c, "active")), {})

JoinQueue(c) ==
    LET active_count == count_active_players(table)
        statusCode == joinQueue_statusCode(
                          update_user_error(table, c,
                              IF has_free_seat(active_count) THEN "active"
                              ELSE "inactive"))
    IN IF has_free_seat(active_count)
       THEN LET marker == get_marker_for_new_active_user(table) IN
            /\ clock' = clock
            /\ IF marker = SlotsFull
               THEN /\ table' = table
                    /\ last' = Done("joinQueue", c, Unhandled, {})
               ELSE /\ table' = update_user(table, c, "active", marker, NoTimestamp)
                    /\ last' = Done("joinQueue", c, statusCode, {})
       ELSE /\ clock < MaxClock
            /\ clock' = clock + 1
            /\ LET new_timestamp == clock'
                   marker == NoneMarker
               IN table' = update_user(table, c, "inactive", marker, new_timestamp)
            /\ last' = Done("joinQueue", c, statusCode, {})

\* ---------------------------------------------------------------- gameOver.py
\* faulty variant: one seat only
fill_needed_one_seat(active_count) == 1 - active_count

fill_needed(active_count) == 2 - active_count

\* faulty variant: the marker is computed once, before the loop
promote_loop_one_marker(t, inactive_users) ==
    LET new_marker == get_marker_for_new_active_user(t)
        promoted == {inactive_users[i] : i \in 1..Len(inactive_users)}
    IN [table |-> [c \in DOMAIN t |->
                      IF c \in promoted
                      THEN [t[c] EXCEPT !.status = "active", !.marker = new_marker]
                      ELSE t[c]],
        raised |-> FALSE]

\* the loop of fill_active_slots: [table, raised]; a ClientError of update_user
\* is caught and the loop goes on, any other exception leaves the function
\* (utility.logging is taken to be the logging module utility.logger comes from)
RECURSIVE promote_loop(_, _)
promote_loop(t, inactive_users) ==
    IF inactive_users = <<>> THEN [table |-> t, raised |-> FALSE]
    ELSE LET connection_id == Head(inactive_users)
             new_marker == get_marker_for_new_active_user(t)
         IN IF new_marker = SlotsFull
            THEN [table |-> t, raised |-> TRUE]
            ELSE promote_loop(
                     update_user(t, connection_id, "active", new_marker, NoTimestamp),
                     Tail(inactive_users))

gameOver_fill_active_slots(t) ==
    LET active_count == count_active_players(t) IN
    IF active_count >= 2 THEN [table |-> t, raised |-> FALSE]
    ELSE promote_loop(t, query_inactive(t, fill_needed(active_count)))

\* faulty variant: the loser keeps its marker
requeue_loser_keeps_marker(t, loser_id, new_timestamp) ==
    update_user(t, loser_id, "inactive", t[loser_id].marker, new_timestamp)

\* faulty variant: the loser keeps its place in the queue
requeue_loser_keeps_joinedAt(t, loser_id, new_timestamp) ==
    update_user(t, loser_id, "inactive", EmptyMarker, NoTimestamp)

\* faulty variant: both players of the game that ended go back to the queue
requeue_both(t, loser_id, new_timestamp) ==
    [c \in DOMAIN t |->
        IF t[c].status = "active" \/ c = loser_id
        THEN [t[c] EXCEPT !.status = "inactive", !.marker = EmptyMarker,
                          !.joinedAt = new_timestamp]
        ELSE t[c]]

requeue_loser(t, loser_id, new_timestamp) ==
    update_user(t, loser_id, "inactive", EmptyMarker, new_timestamp)

\* faulty variant: a tie is not told from a loss
missing_loser_never(loser_id) == FALSE

\* `if not loser_id`
missing_loser(loser_id) == loser_id = NoLoser

GameOver(loser_id) ==
    IF missing_loser(loser_id)
    THEN /\ table' = table
         /\ clock' = clock
         /\ last' = Done("gameOver", loser_id, 400, {})
    ELSE /\ clock < MaxClock
         /\ clock' = clock + 1
         /\ LET new_timestamp == clock' IN
            IF update_user_fails(table, loser_id)
            THEN /\ table' = table
                 /\ last' = Done("gameOver", loser_id, 500, {})
            ELSE LET filled == gameOver_fill_active_slots(
                                   requeue_loser(table, loser_id, new_timestamp))
                 IN /\ table' = filled.table
                    /\ last' = Done("gameOver", loser_id,
                                    IF filled.raised THEN Unhandled ELSE 200, {})

\* faulty variant: no try around the write, the store's error leaves the pass
RECURSIVE promote_loop_uncaught(_, _, _)
promote_loop_uncaught(t, inactive_users, failing) ==
    IF inactive_users = <<>> THEN [table |-> t, raised |-> FALSE]
    ELSE LET connection_id == Head(inactive_users)
             new_marker == get_marker_for_new_active_user(t)
         IN IF new_marker = SlotsFull \/ connection_id \in failing
            THEN [table |-> t, raised |-> TRUE]
            ELSE promote_loop_uncaught(
                     update_user(t, connection_id, "active", new_marker, NoTimestamp),
                     Tail(inactive_users), failing)

\* the loop when the store refuses the writes to the ids in failing with a
\* transient ClientError (throttling, connectivity): the except of lines 89-90
\* logs the error and the loop goes on
RECURSIVE promote_loop_store_errors(_, _, _)
promote_loop_store_errors(t, inactive_users, failing) ==
    IF inactive_users = <<>> THEN [table |-> t, raised |-> FALSE]
    ELSE LET connection_id == Head(inactive_users)
             new_marker == get_marker_for_new_active_user(t)
         IN IF new_marker = SlotsFull
            THEN [table |-> t, raised |-> TRUE]
            ELSE promote_loop_store_errors(
                     IF connection_id \in failing THEN t
                     ELSE update_user(t, connection_id, "active", new_marker,
                                      NoTimestamp),
                     Tail(inactive_users), failing)

\* gameOver for a loser with an item, when the promotion write for the
\* candidate failing_id meets a transient store error
GameOverStoreError(loser_id, failing_id) ==
    /\ ~missing_loser(loser_id)
    /\ ~update_user_fails(table, loser_id)
    /\ clock < MaxClock
    /\ clock' = clock + 1
    /\ LET requeued == requeue_loser(table, loser_id, clock')
           active_count == count_active_players(requeued)
           inactive_users == query_inactive(requeued, fill_needed(active_count))
           filled == promote_loop_store_errors(requeued, inactive_users, {failing_id})
       IN /\ active_count < 2
          /\ \E i \in 1..Len(inactive_users) : inactive_users[i] = failing_id
          /\ table' = filled.table
          /\ last' = [Done("gameOver", loser_id,
                           IF filled.raised THEN Unhandled ELSE 200, {})
                         EXCEPT !.failed = {failing_id}]

\* ---------------------------------------------------------------- disconnect.py
delete_item(t, connection_id) == [c \in DOMAIN t \ {connection_id} |-> t[c]]

\* disconnect.py never imports Key: past the early return the query of
\* fill_active_slots raises NameError before anything is read or written
disconnect_fill_active_slots(t) ==
    LET active_count == count_active_players(t) IN
    IF active_count >= 2 THEN [table |-> t, raised |-> FALSE]
    ELSE [table |-> t, raised |-> TRUE]

\* faulty variant: no early return for an id without an item; the fill runs whatever the
\* status was
Disconnect_no_early_return(c) ==
    /\ clock' = clock
    /\ LET filled == disconnect_fill_active_slots(delete_item(table, c))
       IN /\ table' = filled.table
          /\ last' = Done("disconnect", c,
                          IF filled.raised THEN Unhandled ELSE 200, {})

\* faulty variant: the fill runs after every delete, whatever the status was
Disconnect_fill_always(c) ==
    /\ clock' = clock
    /\ IF c \notin DOMAIN table
       THEN /\ table' = table
            /\ last' = Done("disconnect", c, 200, {})
       ELSE LET filled == disconnect_fill_active_slots(delete_item(table, c))
            IN /\ table' = filled.table
               /\ last' = Done("disconnect", c,
                               IF filled.raised THEN Unhandled ELSE 200, {})

Disconnect(c) ==
    /\ clock' = clock
    /\ IF c \notin DOMAIN table
       THEN /\ table' = table
            /\ last' = Done("disconnect", c, 200, {})
       ELSE LET user_status == table[c].status
                deleted == delete_item(table, c)
            IN IF user_status = "active"
               THEN LET filled == disconnect_fill_active_slots(deleted)
                    IN /\ table' = filled.table
                       /\ last' = Done("disconnect", c,
                                       IF filled.raised THEN Unhandled ELSE 200, {})
               ELSE /\ table' = deleted
                    /\ last' = Done("disconnect", c, 200, {})

\* ---------------------------------------------------------------- sequential runs
\* the local variables of a handler in progress: which handler, the store call
\* it makes next, and its locals needed (n), marker / user_status (marker) and
\* inactive_users
Local(op, pc, n, marker, inactive_users) ==
    [op |-> op, pc |-> pc, n |-> n, marker |-> marker,
     inactive_users |-> inactive_users]

Idle == Local("idle", "idle", 0, "", <<>>)

\* every handler runs to completion before the next event is taken
Init ==
    /\ table = <<>>
    /\ clock = 0
    /\ last = [op |-> "none", id |-> NoLoser, was |-> "absent",
               statusCode |-> Unhandled, invokes |-> {}, failed |-> {}]
    /\ running = [c \in Ids |-> Idle]

Next ==
    \/ \E c \in Ids : Connect(c) /\ UNCHANGED running
    \/ \E c \in Ids : JoinQueue(c) /\ UNCHANGED running
    \/ \E c \in Ids : Disconnect(c) /\ UNCHANGED running
    \/ \E loser_id \in LoserInputs : GameOver(loser_id) /\ UNCHANGED running

Spec == Init /\ [][Next]_vars

\* sequential runs in which promotion writes may meet transient store errors
NextFail ==
    \/ Next
    \/ \E loser_id \in Ids, failing_id \in Ids :
          GameOverStoreError(loser_id, failing_id) /\ UNCHANGED running

SpecFail == Init /\ [][NextFail]_vars

\* ---------------------------------------------------------------- concurrent runs
\* Lambda runs the handlers of different events at the same time: each call a
\* handler makes to the table is one step, and the steps of up to MaxRunning
\* handlers, each for another id, interleave.
Running == {c \in Ids : running[c] # Idle}

CanStart(c) == running[c] = Idle /\ Cardinality(Running) < MaxRunning

Goto(c, local) == running' = [running EXCEPT ![c] = local]

\* the handler for c returns (or ends with an uncaught exception); failed holds
\* the id whose write the store refused in the returning step
FinishFailed(c, op, statusCode, failed) ==
    /\ running' = [running EXCEPT ![c] = Idle]
    /\ last' = [Done(op, c, statusCode, {}) EXCEPT !.failed = failed]

Finish(c, op, statusCode) == FinishFailed(c, op, statusCode, {})

\* joinQueue.py:22
JoinQueueCount(c) ==
    /\ CanStart(c)
    /\ LET active_count == count_active_players(table) IN
       Goto(c, Local("joinQueue",
                     IF has_free_seat(active_count) THEN "marker" ELSE "wait",
                     0, "", <<>>))
    /\ UNCHANGED <<table, clock, last>>

\* joinQueue.py:25
JoinQueueMarker(c) ==
    /\ running[c].op = "joinQueue" /\ running[c].pc = "marker"
    /\ LET marker == get_marker_for_new_active_user(table) IN
       IF marker = SlotsFull
       THEN Finish(c, "joinQueue", Unhandled)
       ELSE Goto(c, [running[c] EXCEPT !.pc = "seat", !.marker = marker])
            /\ last' = last
    /\ UNCHANGED <<table, clock>>

\* faulty variant: the write is an upsert, which creates the item it does not find
JoinQueueSeat_upsert(c) ==
    /\ running[c].op = "joinQueue" /\ running[c].pc = "seat"
    /\ table' = IF c \in DOMAIN table
                THEN update_user(table, c, "active", running[c].marker, NoTimestamp)
                ELSE put_item(table, c, [NewItem(0, 0) EXCEPT
                                            !.status = "active",
                                            !.marker = running[c].marker])
    /\ clock' = clock
    /\ Finish(c, "joinQueue", 200)

\* joinQueue.py:26
JoinQueueSeat(c) ==
    /\ running[c].op = "joinQueue" /\ running[c].pc = "seat"
    /\ table' = update_user(table, c, "active", running[c].marker, NoTimestamp)
    /\ clock' = clock
    /\ Finish(c, "joinQueue",
              joinQueue_statusCode(update_user_error(table, c, "active")))

\* joinQueue.py:38-41
JoinQueueWait(c) ==
    /\ running[c].op = "joinQueue" /\ running[c].pc = "wait"
    /\ clock < MaxClock
    /\ clock' = clock + 1
    /\ table' = update_user(table, c, "inactive", NoneMarker, clock')
    /\ Finish(c, "joinQueue", joinQueue_statusCode(update_user_fails(table, c)))

\* disconnect.py:18-23
DisconnectGet(c) ==
    /\ CanStart(c)
    /\ IF c \notin DOMAIN table
       THEN /\ last' = Done("disconnect", c, 200, {})
            /\ running' = running
       ELSE /\ Goto(c, Local("disconnect", "delete", 0, table[c].status, <<>>))
            /\ last' = last
    /\ UNCHANGED <<table, clock>>

\* disconnect.py:26-31
DisconnectDelete(c) ==
    /\ running[c].op = "disconnect" /\ running[c].pc = "delete"
    /\ table' = delete_item(table, c)
    /\ clock' = clock
    /\ IF running[c].marker = "active"
       THEN Goto(c, [running[c] EXCEPT !.pc = "fill"]) /\ last' = last
       ELSE Finish(c, "disconnect", 200)

\* disconnect.py:51-58
DisconnectFill(c) ==
    /\ running[c].op = "disconnect" /\ running[c].pc = "fill"
    /\ Finish(c, "disconnect",
              IF disconnect_fill_active_slots(table).raised THEN Unhandled ELSE 200)
    /\ UNCHANGED <<table, clock>>

\* gameOver.py:34-35
GameOverRequeue(loser_id) ==
    /\ CanStart(loser_id)
    /\ clock < MaxClock
    /\ clock' = clock + 1
    /\ IF update_user_fails(table, loser_id)
       THEN /\ table' = table
            /\ last' = Done("gameOver", loser_id, 500, {})
            /\ running' = running
       ELSE /\ table' = requeue_loser(table, loser_id, clock')
            /\ Goto(loser_id, Local("gameOver", "count", 0, "", <<>>))
            /\ last' = last

\* gameOver.py:67-71
GameOverCount(loser_id) ==
    /\ running[loser_id].op = "gameOver" /\ running[loser_id].pc = "count"
    /\ LET active_count == count_active_players(table) IN
       IF active_count >= 2
       THEN Finish(loser_id, "gameOver", 200)
       ELSE Goto(loser_id, [running[loser_id] EXCEPT
                               !.pc = "query", !.n = fill_needed(active_count)])
            /\ last' = last
    /\ UNCHANGED <<table, clock>>

\* gameOver.py:74-80
GameOverQuery(loser_id) ==
    /\ running[loser_id].op = "gameOver" /\ running[loser_id].pc = "query"
    /\ LET inactive_users == query_inactive(table, running[loser_id].n) IN
       IF inactive_users = <<>>
       THEN Finish(loser_id, "gameOver", 200)
       ELSE Goto(loser_id, [running[loser_id] EXCEPT
                               !.pc = "marker", !.inactive_users = inactive_users])
            /\ last' = last
    /\ UNCHANGED <<table, clock>>

\* gameOver.py:86
GameOverMarker(loser_id) ==
    /\ running[loser_id].op = "gameOver" /\ running[loser_id].pc = "marker"
    /\ LET new_marker == get_marker_for_new_active_user(table) IN
       IF new_marker = SlotsFull
       THEN Finish(loser_id, "gameOver", Unhandled)
       ELSE Goto(loser_id, [running[loser_id] EXCEPT
                               !.pc = "promote", !.marker = new_marker])
            /\ last' = last
    /\ UNCHANGED <<table, clock>>

\* faulty variant: the promotion is written whatever the candidate's status is
GameOverPromote_unconditional(loser_id) ==
    /\ running[loser_id].op = "gameOver" /\ running[loser_id].pc = "promote"
    /\ LET connection_id == Head(running[loser_id].inactive_users)
           rest == Tail(running[loser_id].inactive_users)
       IN /\ table' = IF update_user_fails(table, connection_id) THEN table
                       ELSE [table EXCEPT ![connection_id] =
                                [@ EXCEPT !.status = "active",
                                          !.marker = running[loser_id].marker]]
          /\ IF rest = <<>>
             THEN Finish(loser_id, "gameOver", 200)
             ELSE Goto(loser_id, [running[loser_id] EXCEPT
                                     !.pc = "marker", !.inactive_users = rest])
                  /\ last' = last
    /\ clock' = clock

\* gameOver.py:87-90
GameOverPromote(loser_id) ==
    /\ running[loser_id].op = "gameOver" /\ running[loser_id].pc = "promote"
    /\ LET connection_id == Head(running[loser_id].inactive_users)
           rest == Tail(running[loser_id].inactive_users)
       IN /\ table' = update_user(table, connection_id, "active",
                                  running[loser_id].marker, NoTimestamp)
          /\ IF rest = <<>>
             THEN FinishFailed(loser_id, "gameOver", 200,
                               IF update_user_error(table, connection_id, "active")
                               THEN {connection_id} ELSE {})
             ELSE Goto(loser_id, [running[loser_id] EXCEPT
                                     !.pc = "marker", !.inactive_users = rest])
                  /\ last' = last
    /\ clock' = clock

NextConc ==
    \/ \E c \in Ids : Connect(c) /\ UNCHANGED running
    \/ \E c \in Ids : JoinQueueCount(c)
    \/ \E c \in Ids : JoinQueueMarker(c)
    \/ \E c \in Ids : JoinQueueSeat(c)
    \/ \E c \in Ids : JoinQueueWait(c)
    \/ \E c \in Ids : DisconnectGet(c)
    \/ \E c \in Ids : DisconnectDelete(c)
    \/ \E c \in Ids : DisconnectFill(c)
    \/ \E loser_id \in Ids : GameOverRequeue(loser_id)
    \/ \E loser_id \in Ids : GameOverCount(loser_id)
    \/ \E loser_id \in Ids : GameOverQuery(loser_id)
    \/ \E loser_id \in Ids : GameOverMarker(loser_id)
    \/ \E loser_id \in Ids : GameOverPromote(loser_id)

SpecConc == Init /\ [][NextConc]_vars

\* ---------------------------------------------------------------- invariants of section 3
I1(t) == count_active_players(t) <= 2

ActiveMarkers(t) == {t[c].marker : c \in ActiveIds(t)}

I2(t) == count_active_players(t) = 2 => ActiveMarkers(t) = Markers

I3(t) == count_active_players(t) = 1 => ActiveMarkers(t) \subseteq Markers

\* the step just taken is handler `op` run for an id whose status was in `was`
Ran(op, was) == last'.op = op /\ last'.was \in was /\ vars' # vars

\* C1: sequential runs from the empty table: after any sequence of connect,
\* joinQueue, disconnect and gameOver handlers, each run to completion, at most
\* 2 items have status active.
C1_AtMostTwoActive == I1(table)

\* a queue request that found both seats taken and left the caller waiting
C1_Witness ==
    /\ last.op = "joinQueue" /\ last.was = "inactive" /\ last.statusCode = 200
    /\ StatusOf(table, last.id) = "inactive"
    /\ count_active_players(table) = 2

\* C2: concurrent runs: when handlers for different ids run at the same time and
\* their calls to the table interleave, no reachable table has more than 2 items
\* with status active.
C2_AtMostTwoActiveConcurrent == Cardinality(ActiveIds(table)) \in 0..2

\* C3: after every completed handler, two active players hold X and O, one
\* each, and a single active player holds X or O; also when the handler was a
\* joinQueue of a player that was already active.
C3_MarkersDistinct == I2(table) /\ I3(table)

\* a joinQueue of one of two active players, which leaves the other alone at
\* the table with O
C3_Witness ==
    /\ last.op = "joinQueue" /\ last.was = "active" /\ last.statusCode = 200
    /\ StatusOf(table, last.id) = "inactive"
    /\ ActiveMarkers(table) = {"O"}

\* C4: an item has marker X or O if and only if its status is active.
C4_MarkerIffActive ==
    \A c \in DOMAIN table : (table[c].marker \in Markers) <=> (table[c].status = "active")

\* an active player sent back to the queue by gameOver while the player that
\* waited takes its seat
C4_Witness ==
    /\ last.op = "gameOver" /\ last.was = "active" /\ last.statusCode = 200
    /\ StatusOf(table, last.id) = "inactive"
    /\ table[last.id].marker = EmptyMarker
    /\ count_active_players(table) = 2

\* first of the waiting line: the inactive item with the least joinedAt
FirstWaiting(t) == Head(SortedByJoinedAt(t, InactiveIds(t)))

\* the marker a player promoted into t must get: the one no active player holds
FreeMarker(t) == IF ActiveMarkers(t) = {"X"} THEN "O" ELSE "X"

\* C5: after a disconnect of an active player, run to completion with an
\* inactive player in the table, the inactive player with the least joinedAt is
\* active and holds the marker the remaining active player does not hold (X when
\* none remains).
C5_DepartPromotesFirstWaiting ==
    [][(Ran("disconnect", {"active"}) /\ InactiveIds(table) # {}) =>
          /\ StatusOf(table', FirstWaiting(table)) = "active"
          /\ table'[FirstWaiting(table)].marker = FreeMarker(delete_item(table, last'.id))
      ]_vars

\* C6 as stated: after gameOver for an active loser the loser is inactive with a
\* joinedAt greater than before, and 2 players are active if another player was
\* waiting.
C6_LoserInactive ==
    [][Ran("gameOver", {"active"}) =>
          /\ StatusOf(table', last'.id) = "inactive"
          /\ table'[last'.id].joinedAt > table[last'.id].joinedAt
          /\ (InactiveIds(table) # {} => count_active_players(table') = 2)
      ]_vars

\* C6: after gameOver for an active loser the loser's joinedAt is greater than
\* before; the loser is inactive afterwards exactly when at least
\* 3 - (number of active players before) players were waiting, and is promoted
\* again by the same call otherwise; 2 players are active afterwards if another
\* player was waiting.
C6_LoserRequeued ==
    [][Ran("gameOver", {"active"}) =>
          /\ table'[last'.id].joinedAt > table[last'.id].joinedAt
          /\ (StatusOf(table', last'.id) = "inactive" <=>
                 Cardinality(InactiveIds(table)) >= 3 - count_active_players(table))
          /\ StatusOf(table', last'.id) \in {"inactive", "active"}
          /\ (InactiveIds(table) # {} => count_active_players(table') = 2)
      ]_vars

\* the loser waits and the player that waited before it has its seat
C6_Witness ==
    /\ last.op = "gameOver" /\ last.was = "active" /\ last.statusCode = 200
    /\ StatusOf(table, last.id) = "inactive"
    /\ count_active_players(table) = 2
    /\ \E c \in ActiveIds(table) : table[c].joinedAt < table[last.id].joinedAt
                                     /\ table[c].marker = "X"

\* C7: a connect for an id that already has an item fails (statusCode 500),
\* changes no item, that id's or another's, and sends no joinQueue invocation.
C7_DuplicateConnectRejected ==
    [][Ran("connect", {"active", "inactive"}) =>
          /\ last'.statusCode = 500
          /\ table' = table
          /\ last'.invokes = {}
      ]_vars

\* a connect refused for the id of an active player
C7_Witness ==
    /\ last.op = "connect" /\ last.was = "active" /\ last.statusCode = 500
    /\ StatusOf(table, last.id) = "active"

\* C8: gameOver without a loserId returns the validation error (statusCode 400)
\* and changes no item: nothing is requeued, promoted, created or deleted.
C8_MissingLoserNoMutation ==
    [][(last'.op = "gameOver" /\ last'.id = NoLoser /\ vars' # vars) =>
          /\ last'.statusCode = 400
          /\ table' = table
          /\ clock' = clock
      ]_vars

\* a tie reported while a seat is free and a player waits
C8_Witness ==
    /\ last.op = "gameOver" /\ last.id = NoLoser /\ last.statusCode = 400
    /\ count_active_players(table) < 2
    /\ InactiveIds(table) # {}

C10_DepartUnknownNoop ==
    [][Ran("disconnect", {"absent"}) =>
          /\ last'.statusCode = 200
          /\ table' = table
      ]_vars

\* a disconnect for an unknown id while a seat is free and a player waits
C10_Witness ==
    /\ last.op = "disconnect" /\ last.was = "absent" /\ last.statusCode = 200
    /\ count_active_players(table) < 2
    /\ InactiveIds(table) # {}

\* C11: a disconnect of an inactive player returns success and deletes that
\* player's item only: every other item, active or inactive, keeps its status,
\* marker and joinedAt, and no promotion pass runs.
C11_DepartInactiveDeletesOnly ==
    [][Ran("disconnect", {"inactive"}) =>
          /\ last'.statusCode = 200
          /\ DOMAIN table' = DOMAIN table \ {last'.id}
          /\ \A c \in DOMAIN table' : table'[c] = table[c]
      ]_vars

\* an inactive player left while a seat was free and another player waited
C11_Witness ==
    /\ last.op = "disconnect" /\ last.was = "inactive" /\ last.statusCode = 200
    /\ last.id \notin DOMAIN table
    /\ count_active_players(table) = 1
    /\ InactiveIds(table) # {}

\* C12: a joinQueue of an inactive player succeeds and writes that player's
\* item only: with fewer than 2 active players the player becomes active with
\* the marker no active player holds (X when none is active); with 2 active
\* players it stays inactive, holds no marker and its joinedAt is the time of
\* the call. No item is created or deleted and no other item changes.
C12_QueueRequestSeatsOrQueues ==
    [][Ran("joinQueue", {"inactive"}) =>
          /\ last'.statusCode = 200
          /\ DOMAIN table' = DOMAIN table
          /\ \A c \in DOMAIN table \ {last'.id} : table'[c] = table[c]
          /\ IF count_active_players(table) < 2
             THEN /\ table'[last'.id].status = "active"
                  /\ table'[last'.id].marker = FreeMarker(table)
             ELSE /\ table'[last'.id].status = "inactive"
                  /\ table'[last'.id].marker \notin Markers
                  /\ table'[last'.id].joinedAt = clock'
                  /\ clock' > clock
      ]_vars

\* a waiting player took the second seat, with O
C12_Witness ==
    /\ last.op = "joinQueue" /\ last.was = "inactive" /\ last.statusCode = 200
    /\ StatusOf(table, last.id) = "active"
    /\ table[last.id].marker = "O"
    /\ count_active_players(table) = 2

\* C13: the marker computed for a new player is X when no player is active,
\* the marker the single active player does not hold when one is active, and
\* SlotsFull (no marker) when two are active; computing it writes nothing. Stated
\* for connection.py's get_marker_for_new_active_userr, whose result is the
\* marker of the joinQueue payload a successful connect sends.
C13_AssignMarker ==
    [][Ran("connect", {"absent"}) =>
          /\ last'.invokes # {}
          /\ ActiveIds(table') = ActiveIds(table)
          /\ \A payload \in last'.invokes :
                payload.marker =
                    IF count_active_players(table) = 0 THEN "X"
                    ELSE IF count_active_players(table) = 1 THEN FreeMarker(table)
                    ELSE SlotsFull
      ]_vars

Promoted(t) == query_inactive(t, 2 - count_active_players(t))

FillPost(t, after) ==
    IF 2 - count_active_players(t) <= 0 THEN after = t
    ELSE /\ DOMAIN after = DOMAIN t
         /\ ActiveIds(after) = ActiveIds(t) \cup {Promoted(t)[i] : i \in 1..Len(Promoted(t))}
         /\ \A c \in DOMAIN t : after[c].joinedAt = t[c].joinedAt
         /\ \A c \in DOMAIN t \ ActiveIds(after) : after[c] = t[c]
         /\ \A c \in ActiveIds(t) : after[c] = t[c]
         /\ Len(Promoted(t)) >= 1 => after[Promoted(t)[1]].marker = FreeMarker(t)
         /\ Len(Promoted(t)) = 2 => /\ after[Promoted(t)[1]].marker = "X"
                                    /\ after[Promoted(t)[2]].marker = "O"
         /\ count_active_players(after) =
                IF count_active_players(t) + Cardinality(InactiveIds(t)) < 2
                THEN count_active_players(t) + Cardinality(InactiveIds(t))
                ELSE 2

\* C16: the fill pass of a handler run alone, from the table the handler's own
\* write left (the loser requeued, the departing active player deleted):
\* nothing changes when 2 are active; otherwise the first min(needed, waiting)
\* inactive players in joinedAt order become active, the active count ends at
\* min(2, active + waiting), and of two promoted players the earlier holds X and
\* the later O.
C16_FillPass ==
    [][/\ Ran("gameOver", {"active", "inactive"}) =>
             FillPost(requeue_loser(table, last'.id, clock'), table')
       /\ Ran("disconnect", {"active"}) =>
             FillPost(delete_item(table, last'.id), table')
      ]_vars

\* C17: when the write promoting one candidate of gameOver's fill pass fails
\* with a store error, the failed candidate's item is as the pass found it, the
\* other candidate of the pass is still promoted, with the marker free in the
\* table as it is after the failure, and I1, I2 and I3 hold when the handler
\* returns.
C17_PartialFailure ==
    [][(Ran("gameOver", {"active", "inactive"}) /\ last'.failed # {}) =>
          LET requeued == requeue_loser(table, last'.id, clock') IN
          /\ last'.statusCode = 200
          /\ \A c \in last'.failed : table'[c] = requeued[c]
          /\ \A i \in 1..Len(Promoted(requeued)) :
                Promoted(requeued)[i] \notin last'.failed =>
                    /\ table'[Promoted(requeued)[i]].status = "active"
                    /\ table'[Promoted(requeued)[i]].marker = FreeMarker(requeued)
          /\ I1(table') /\ I2(table') /\ I3(table')
      ]_vars

\* the write for the first of the waiting line failed and the loser, next in
\* line, was promoted again
C17_Witness ==
    /\ last.op = "gameOver" /\ last.was = "active" /\ last.statusCode = 200
    /\ StatusOf(table, last.id) = "active"
    /\ table[last.id].joinedAt = clock
    /\ \E c \in last.failed :
          /\ StatusOf(table, c) = "inactive"
          /\ table[c].joinedAt < table[last.id].joinedAt

\* C18: a gameOver for one of two active players leaves the item of the other
\* active player as it was (status active, marker, joinedAt, sessionId),
\* whoever waits.
C18_WinnerUntouched ==
    [][(Ran("gameOver", {"active"}) /\ count_active_players(table) = 2) =>
          \A c \in ActiveIds(table) \ {last'.id} :
              /\ c \in DOMAIN table'
              /\ table'[c] = table[c]
              /\ table'[c].status = "active"
      ]_vars

\* the loser waits, the winner still holds O and joined before the player that
\* was promoted with X: one promotion, so two were active before
C18_Witness ==
    /\ last.op = "gameOver" /\ last.was = "active" /\ last.statusCode = 200
    /\ StatusOf(table, last.id) = "inactive"
    /\ \E c, d \in ActiveIds(table) :
          /\ table[c].joinedAt < table[d].joinedAt
          /\ table[c].marker = "O"
          /\ table[d].marker = "X"

\* a player that connect created and that no joinQueue, and no other write, has
\* reached since: its item is as put_item wrote it
NeverQueued(t) == {c \in DOMAIN t : t[c].status = "inactive" /\ t[c].marker = NoMarkerAttr}

\* C19: a player created by connect for which no joinQueue has run yet has no
\* place in the waiting line: the fill pass of a disconnect or gameOver of
\* another player never makes it active.
C19_NeverQueuedNotPromoted ==
    [][\A c \in NeverQueued(table) :
          (last'.op \in {"gameOver", "disconnect"} /\ last'.id # c) =>
              StatusOf(table', c) # "active"
      ]_vars

\* C20: the requeued loser is a candidate of the fill pass of its own gameOver.
\* After a gameOver for one of two active players: when nobody else waits, the
\* loser is active again, requeued in between (its joinedAt is the time of the
\* call), with the marker the other active player does not hold; when somebody
\* else waits, the first of the waiting line is active and the loser is
\* inactive.
C20_LoserIsCandidate ==
    [][(Ran("gameOver", {"active"}) /\ count_active_players(table) = 2) =>
          IF InactiveIds(table) = {}
          THEN /\ StatusOf(table', last'.id) = "active"
               /\ table'[last'.id].joinedAt = clock'
               /\ clock' > clock
               /\ table'[last'.id].marker \in Markers
               /\ \A c \in ActiveIds(table) \ {last'.id} :
                     table'[last'.id].marker # table'[c].marker
          ELSE /\ StatusOf(table', FirstWaiting(table)) = "active"
               /\ StatusOf(table', last'.id) = "inactive"
               /\ count_active_players(table') = 2
      ]_vars

\* the loser sits again, with X, next to the winner that holds O
C20_Witness ==
    /\ last.op = "gameOver" /\ last.was = "active" /\ last.statusCode = 200
    /\ StatusOf(table, last.id) = "active"
    /\ table[last.id].marker = "X"
    /\ table[last.id].joinedAt = clock
    /\ count_active_players(table) = 2
    /\ InactiveIds(table) = {}
====
